---- MODULE Spec2Model ----
(***************************************************************************)
(* TorusSQL server compiler pipeline: Lexer -> Parser -> CodeGen, and the  *)
(* TorusSQL client's read loop.                                            *)
(*                                                                         *)
(* A character is modelled as a string naming it: ASCII characters are     *)
(* themselves, "U+00E9" is the two-byte letter e-acute and "U+00A0" is the *)
(* two-byte no-break space.  A Rust String / &str is a sequence of         *)
(* characters.  The Peekable<Chars> cursor of the Lexer is the number of   *)
(* characters already consumed (pos).                                      *)
(***************************************************************************)
EXTENDS Integers, Sequences, FiniteSets, TLC

VARIABLES
    input,          \* the &str handed to Lexer::new
    unit,           \* which object the caller constructed and drives
    pos,            \* Lexer.input: characters consumed so far
    current_token,  \* Parser.current_token : Option<Token>
    bytecode,       \* CodeGen.bytecode : Vec<u8>
    token,          \* result of the caller's last Lexer::next_token()
    statement,      \* result of the caller's last Parser::parse()
    result,         \* result of the caller's last CodeGen::generate_bytecode()
    calls,          \* calls the caller has made on the unit
    somes,          \* how many of those calls returned Some(statement/bytecode)
    arg_lang_type,  \* argument of the last language_type_to_bytecode()
    ret_byte,       \* its result
    arg_byte,       \* argument of the last bytecode_to_language_type()
    ret_lang_type,  \* its result
    client_input,   \* Client.input : String
    history,        \* Client.history : Vec<String>
    history_pos,    \* Client.history_pos : usize
    pc              \* where Client::read_input stands

compilerVars == <<input, pos, current_token, bytecode, token, statement,
                  result, calls, somes>>
tagVars      == <<arg_lang_type, ret_byte, arg_byte, ret_lang_type>>
clientVars   == <<client_input, history, history_pos, pc>>
vars         == <<unit, compilerVars, tagVars, clientVars>>

-----------------------------------------------------------------------------
(* Bounds of the model.                                                    *)

\* free inputs are concatenations of at most MaxSegs lexicon entries
MaxSegs == 4
\* longest database name (in characters) among the long-name inputs
MaxLongName == 257
\* calls of parse() / generate_bytecode() on one instance
MaxCalls == 3
\* calls of next_token() on one Lexer
MaxLexCalls == 7
\* entries of the client's history beyond which ENTER is not pressed
MaxHistory == 2

\* u8 arithmetic: `as u8` keeps the value modulo 2^8
U8Mod == 256

-----------------------------------------------------------------------------
(* Characters.                                                             *)

UpperLetters ==
    <<"A","B","C","D","E","F","G","H","I","J","K","L","M",
      "N","O","P","Q","R","S","T","U","V","W","X","Y","Z">>
LowerLetters ==
    <<"a","b","c","d","e","f","g","h","i","j","k","l","m",
      "n","o","p","q","r","s","t","u","v","w","x","y","z">>

Range(s) == { s[i] : i \in DOMAIN s }

\* Option<char>::None of Peekable::peek
NoChar == ""

UpperSet == Range(UpperLetters)
LowerSet == Range(LowerLetters)
AlphabeticChars == UpperSet \cup LowerSet \cup {"U+00E9"}
WhitespaceChars == {" ", "\t", "\n", "U+00A0"}
\* every character of the model
Chars == AlphabeticChars \cup WhitespaceChars \cup {"\"", ";", "*", "1"}

\* char::is_alphabetic
IsAlphabetic(c) == c \in AlphabeticChars

\* char::is_whitespace
IsWhitespace(c) == c \in WhitespaceChars

\* char::to_lowercase
CharToLowercase(c) ==
    IF c \in UpperSet
    THEN LowerLetters[CHOOSE i \in DOMAIN UpperLetters : UpperLetters[i] = c]
    ELSE c

\* str::to_lowercase
ToLowercase(s) == [ i \in DOMAIN s |-> CharToLowercase(s[i]) ]

\* UTF-8 encoding of one character
Utf8(c) ==
    CASE c \in UpperSet ->
           <<64 + (CHOOSE i \in DOMAIN UpperLetters : UpperLetters[i] = c)>>
      [] c \in LowerSet ->
           <<96 + (CHOOSE i \in DOMAIN LowerLetters : LowerLetters[i] = c)>>
      [] c = " "      -> <<32>>
      [] c = "\t"     -> <<9>>
      [] c = "\n"     -> <<10>>
      [] c = "\""     -> <<34>>
      [] c = "*"      -> <<42>>
      [] c = "1"      -> <<49>>
      [] c = ";"      -> <<59>>
      [] c = "U+00E9" -> <<195, 169>>
      [] c = "U+00A0" -> <<194, 160>>

\* str::bytes, as the whole byte sequence: the encodings of the characters
\* in order (computed by halving, so that long strings nest shallowly)
RECURSIVE StrBytes(_)
StrBytes(s) ==
    IF Len(s) = 0 THEN <<>>
    ELSE IF Len(s) = 1 THEN Utf8(s[1])
    ELSE LET h == Len(s) \div 2
         IN  StrBytes(SubSeq(s, 1, h)) \o StrBytes(SubSeq(s, h + 1, Len(s)))

\* str::len (a byte count, not a character count)
StrLen(s) == Len(StrBytes(s))

-----------------------------------------------------------------------------
(* Token vocabulary.                                                       *)

NoneToken     == [tag |-> "None",      kw |-> "",  text |-> <<>>]
KeywordTok(k) == [tag |-> "Keyword",   kw |-> k,   text |-> <<>>]
StringTok(s)  == [tag |-> "String",    kw |-> "",  text |-> s]
SemicolonTok  == [tag |-> "Semicolon", kw |-> "",  text |-> <<>>]
EndTok        == [tag |-> "End",       kw |-> "",  text |-> <<>>]

kwCreate   == <<"c","r","e","a","t","e">>
kwDatabase == <<"d","a","t","a","b","a","s","e">>

\* a try_from that compares the text as written
KeywordTryFromExact(value) ==
    IF value = kwCreate THEN "Create"
    ELSE IF value = kwDatabase THEN "Database"
    ELSE ""

\* Keyword::try_from: "" stands for Err("Not a keyword")
KeywordTryFrom(value) ==
    LET lowercase_value == ToLowercase(value)
    IN  IF lowercase_value = kwCreate THEN "Create"
        ELSE IF lowercase_value = kwDatabase THEN "Database"
        ELSE ""

-----------------------------------------------------------------------------
(* Lexer.                                                                  *)

\* Peekable::peek
Peek(inp, p) == IF p < Len(inp) THEN inp[p + 1] ELSE NoChar

\* Lexer::advance
Advance(inp, p) == IF p < Len(inp) THEN p + 1 ELSE p

\* A loop `while peek() is Some(c) and c is in keep { advance() }` started
\* at cursor p stops at the first cursor q >= p where the input is exhausted
\* or the peeked character is not in keep.
ScanWhile(inp, p, keep) ==
    CHOOSE q \in p..Len(inp) :
        /\ Peek(inp, q) \notin keep
        /\ \A r \in p..(q - 1) : Peek(inp, r) \in keep

\* a skip_whitespace with `if` in place of `while`
SkipWhitespaceOnce(inp, p) == Advance(inp, p)

\* Lexer::skip_whitespace
SkipWhitespace(inp, p) == ScanWhile(inp, p, WhitespaceChars)

\* the while-let loop of consume_keyword_or_ident: pushes every character it
\* advances over onto value
AlphabeticRun(inp, p, value) ==
    LET StopAt(q) == [value |-> value \o SubSeq(inp, p + 1, q), pos |-> q]
    IN  StopAt(ScanWhile(inp, p, AlphabeticChars))

\* a consume_keyword_or_ident that keeps the lower-cased text of an identifier
ConsumeKeywordOrIdentLowercased(inp, p) ==
    LET Convert(run, keyword) ==
            IF run.value = <<>> THEN [tok |-> NoneToken, pos |-> run.pos]
            ELSE IF keyword # ""
                 THEN [tok |-> KeywordTok(keyword), pos |-> run.pos]
                 ELSE [tok |-> StringTok(ToLowercase(run.value)), pos |-> run.pos]
        Extracted(run) == Convert(run, KeywordTryFrom(run.value))
    IN  Extracted(AlphabeticRun(inp, p, <<>>))

\* Lexer::consume_keyword_or_ident
ConsumeKeywordOrIdent(inp, p) ==
    LET Convert(run, keyword) ==
            IF run.value = <<>> THEN [tok |-> NoneToken, pos |-> run.pos]
            ELSE IF keyword # ""
                 THEN [tok |-> KeywordTok(keyword), pos |-> run.pos]
                 ELSE [tok |-> StringTok(run.value), pos |-> run.pos]
        Extracted(run) == Convert(run, KeywordTryFrom(run.value))
    IN  Extracted(AlphabeticRun(inp, p, <<>>))

\* the characters for which `*c == '"'` is false
NotQuote == Chars \ {"\""}

\* a consume_string loop that does not push whitespace onto value
StringRunNoWhitespace(inp, p, value) ==
    LET StopAt(q) ==
            [value |-> value \o SelectSeq(SubSeq(inp, p + 1, q),
                                          LAMBDA c : ~IsWhitespace(c)),
             pos   |-> IF Peek(inp, q) = "\"" THEN Advance(inp, q) ELSE q]
    IN  StopAt(ScanWhile(inp, p, NotQuote))

\* the while-let loop of consume_string: pushes every character before the
\* next '"' onto value and consumes that '"' if there is one
StringRun(inp, p, value) ==
    LET StopAt(q) ==
            [value |-> value \o SubSeq(inp, p + 1, q),
             pos   |-> IF Peek(inp, q) = "\"" THEN Advance(inp, q) ELSE q]
    IN  StopAt(ScanWhile(inp, p, NotQuote))

\* a consume_string without the check for an empty value
ConsumeStringAllowEmpty(inp, p) ==
    LET Literal(run) == [tok |-> StringTok(run.value), pos |-> run.pos]
    IN  Literal(StringRun(inp, Advance(inp, p), <<>>))

\* Lexer::consume_string
ConsumeString(inp, p) ==
    LET Literal(run) ==
            IF run.value # <<>>
            THEN [tok |-> StringTok(run.value), pos |-> run.pos]
            ELSE [tok |-> NoneToken, pos |-> run.pos]
    IN  Literal(StringRun(inp, Advance(inp, p), <<>>))

\* a consume_symbol without the `_ => return None` arm
ConsumeSymbolAny(inp, p) == [tok |-> SemicolonTok, pos |-> p]

\* Lexer::consume_symbol
ConsumeSymbol(inp, p) ==
    IF Peek(inp, p) = ";" THEN [tok |-> SemicolonTok, pos |-> p]
    ELSE [tok |-> NoneToken, pos |-> p]

\* a next_token that returns None when the input is exhausted
LexerNextTokenNoneAtEnd(inp, p) ==
    LET Consumed(r) == [tok |-> r.tok, pos |-> Advance(inp, r.pos)]
        Handle(p1, c) ==
            IF c # NoChar
            THEN Consumed(IF IsAlphabetic(c) THEN ConsumeKeywordOrIdent(inp, p1)
                          ELSE IF c = "\"" THEN ConsumeString(inp, p1)
                          ELSE ConsumeSymbol(inp, p1))
            ELSE [tok |-> NoneToken, pos |-> p1]
        Skipped(p1) == Handle(p1, Peek(inp, p1))
    IN  Skipped(IF Peek(inp, p) # NoChar /\ IsWhitespace(Peek(inp, p))
                THEN SkipWhitespace(inp, p) ELSE p)

\* a next_token without the advance() behind the consume_* call
LexerNextTokenNoAdvance(inp, p) ==
    LET Handle(p1, c) ==
            IF c # NoChar
            THEN IF IsAlphabetic(c) THEN ConsumeKeywordOrIdent(inp, p1)
                 ELSE IF c = "\"" THEN ConsumeString(inp, p1)
                 ELSE ConsumeSymbol(inp, p1)
            ELSE [tok |-> EndTok, pos |-> p1]
        Skipped(p1) == Handle(p1, Peek(inp, p1))
    IN  Skipped(IF Peek(inp, p) # NoChar /\ IsWhitespace(Peek(inp, p))
                THEN SkipWhitespace(inp, p) ELSE p)

\* Lexer::next_token
LexerNextToken(inp, p) ==
    LET Consumed(r) == [tok |-> r.tok, pos |-> Advance(inp, r.pos)]
        Handle(p1, c) ==
            IF c # NoChar
            THEN Consumed(IF IsAlphabetic(c) THEN ConsumeKeywordOrIdent(inp, p1)
                          ELSE IF c = "\"" THEN ConsumeString(inp, p1)
                          ELSE ConsumeSymbol(inp, p1))
            ELSE [tok |-> EndTok, pos |-> p1]
        Skipped(p1) == Handle(p1, Peek(inp, p1))
    IN  Skipped(IF Peek(inp, p) # NoChar /\ IsWhitespace(Peek(inp, p))
                THEN SkipWhitespace(inp, p) ELSE p)

-----------------------------------------------------------------------------
(* AST.                                                                    *)

NoneStatement        == [tag |-> "None",           name |-> <<>>]
CreateDatabase(name) == [tag |-> "CreateDatabase", name |-> name]

\* a language_type that files CREATE DATABASE under DML
LanguageTypeOfDml(stmt) == "DML"

\* Statement::language_type
LanguageTypeOf(stmt) == "DDL"

-----------------------------------------------------------------------------
(* Parser.  The parser state is the owned lexer's cursor and               *)
(* current_token; every operator returns the state it leaves behind        *)
(* together with the value it returns.                                     *)

\* Parser::next_token
ParserNextToken(inp, p) ==
    LET Store(t) == [pos |-> t.pos, current_token |-> t.tok]
    IN  Store(LexerNextToken(inp, p))

\* Parser::new
ParserNew(inp) == ParserNextToken(inp, 0)

\* parse_create_database taking whatever token comes next as the name
ParseCreateDatabaseAnyToken(inp, p) ==
    LET Name(s) ==
            IF s.current_token.tag # "None"
            THEN [ret |-> CreateDatabase(s.current_token.text),
                  pos |-> s.pos, current_token |-> s.current_token]
            ELSE [ret |-> NoneStatement,
                  pos |-> s.pos, current_token |-> s.current_token]
    IN  Name(ParserNextToken(inp, p))

\* parse_create_database that refills current_token after taking the name
ParseCreateDatabasePrefetch(inp, p) ==
    LET Refill(s, n) ==
            [ret |-> CreateDatabase(s.current_token.text),
             pos |-> n.pos, current_token |-> n.current_token]
        Name(s) ==
            IF s.current_token.tag = "String"
            THEN Refill(s, ParserNextToken(inp, s.pos))
            ELSE [ret |-> NoneStatement,
                  pos |-> s.pos, current_token |-> s.current_token]
    IN  Name(ParserNextToken(inp, p))

\* Parser::parse_create_database
ParseCreateDatabase(inp, p) ==
    LET Name(s) ==
            IF s.current_token.tag = "String"
            THEN [ret |-> CreateDatabase(s.current_token.text),
                  pos |-> s.pos, current_token |-> s.current_token]
            ELSE [ret |-> NoneStatement,
                  pos |-> s.pos, current_token |-> s.current_token]
    IN  Name(ParserNextToken(inp, p))

\* parse_create dispatching on any keyword after CREATE
ParseCreateAnyKeyword(inp, p) ==
    LET Target(s) ==
            IF s.current_token.tag = "Keyword"
            THEN ParseCreateDatabase(inp, s.pos)
            ELSE [ret |-> NoneStatement,
                  pos |-> s.pos, current_token |-> s.current_token]
    IN  Target(ParserNextToken(inp, p))

\* Parser::parse_create
ParseCreate(inp, p) ==
    LET Target(s) ==
            IF s.current_token.tag = "Keyword" /\ s.current_token.kw = "Database"
            THEN ParseCreateDatabase(inp, s.pos)
            ELSE [ret |-> NoneStatement,
                  pos |-> s.pos, current_token |-> s.current_token]
    IN  Target(ParserNextToken(inp, p))

\* parse dispatching on any leading keyword
ParseAnyKeyword(inp, p, cur) ==
    IF cur.tag = "Keyword"
    THEN ParseCreate(inp, p)
    ELSE [ret |-> NoneStatement, pos |-> p, current_token |-> cur]

\* Parser::parse
Parse(inp, p, cur) ==
    IF cur.tag = "Keyword" /\ cur.kw = "Create"
    THEN ParseCreate(inp, p)
    ELSE [ret |-> NoneStatement, pos |-> p, current_token |-> cur]

-----------------------------------------------------------------------------
(* CodeGen.                                                                *)

LanguageTypes == {"DDL", "DML", "DCL", "TCL", "DQL", "Vendor"}

\* a language_type_to_bytecode that numbers the variants from zero
LanguageTypeToBytecodeFromZero(lang_type) ==
    CASE lang_type = "DDL"    -> 0
      [] lang_type = "DML"    -> 1
      [] lang_type = "DCL"    -> 2
      [] lang_type = "TCL"    -> 3
      [] lang_type = "DQL"    -> 4
      [] lang_type = "Vendor" -> 5

\* language_type_to_bytecode
LanguageTypeToBytecode(lang_type) ==
    CASE lang_type = "DDL"    -> 1
      [] lang_type = "DML"    -> 2
      [] lang_type = "DCL"    -> 3
      [] lang_type = "TCL"    -> 4
      [] lang_type = "DQL"    -> 5
      [] lang_type = "Vendor" -> 6

\* bytecode_to_language_type: "None" stands for Option::None
BytecodeToLanguageType(byte) ==
    CASE byte = 1 -> "DDL"
      [] byte = 2 -> "DML"
      [] byte = 3 -> "DCL"
      [] byte = 4 -> "TCL"
      [] byte = 5 -> "DQL"
      [] byte = 6 -> "Vendor"
      [] OTHER    -> "None"

\* statement_to_bytecode
StatementToBytecode(stmt) ==
    CASE stmt.tag = "CreateDatabase" -> 1

\* `as u8`
AsU8(n) == n % U8Mod

\* generate_create_database writing the number of characters as the length
GenerateCreateDatabaseCharCount(bc, name) ==
    Append(bc, AsU8(Len(name))) \o StrBytes(name)

\* ddl::generate_create_database
GenerateCreateDatabase(bc, name) ==
    Append(bc, AsU8(StrLen(name))) \o StrBytes(name)

\* ddl::generate_bytecode
DdlGenerateBytecode(bc, stmt) ==
    LET Operands(header) ==
            CASE stmt.tag = "CreateDatabase" ->
                   GenerateCreateDatabase(header, stmt.name)
    IN  Operands(Append(Append(bc, LanguageTypeToBytecode("DDL")),
                        StatementToBytecode(stmt)))

NoneBytecode      == [tag |-> "None", bytes |-> <<>>]
SomeBytecode(bc)  == [tag |-> "Some", bytes |-> bc]

\* generate_bytecode emitting the header before it parses
GenerateBytecodeHeaderFirst(inp, p, cur, bc) ==
    LET Emitted(parsed, out) ==
            [ret |-> SomeBytecode(out), bytecode |-> out,
             pos |-> parsed.pos, current_token |-> parsed.current_token]
        Failed(parsed, header) ==
            [ret |-> NoneBytecode, bytecode |-> header,
             pos |-> parsed.pos, current_token |-> parsed.current_token]
        Generate(parsed, header) ==
            IF parsed.ret.tag # "None"
            THEN Emitted(parsed, GenerateCreateDatabase(header, parsed.ret.name))
            ELSE Failed(parsed, header)
    IN  Generate(Parse(inp, p, cur),
                 Append(Append(bc, LanguageTypeToBytecode("DDL")), 1))

\* CodeGen::generate_bytecode
GenerateBytecode(inp, p, cur, bc) ==
    LET Emitted(parsed, out) ==
            [ret |-> SomeBytecode(out), bytecode |-> out,
             pos |-> parsed.pos, current_token |-> parsed.current_token]
        Failed(parsed) ==
            [ret |-> NoneBytecode, bytecode |-> bc,
             pos |-> parsed.pos, current_token |-> parsed.current_token]
        Generate(parsed) ==
            IF parsed.ret.tag # "None"
            THEN IF LanguageTypeOf(parsed.ret) = "DDL"
                 THEN Emitted(parsed, DdlGenerateBytecode(bc, parsed.ret))
                 ELSE Failed(parsed)
            ELSE Failed(parsed)
    IN  Generate(Parse(inp, p, cur))

-----------------------------------------------------------------------------
(* Inputs.                                                                 *)

RECURSIVE Flatten(_)
Flatten(ss) == IF ss = <<>> THEN <<>> ELSE Head(ss) \o Flatten(Tail(ss))

Rep(c, n) == [ i \in 1..n |-> c ]

txtCREATE   == <<"C","R","E","A","T","E">>
txtCreAtE   == <<"C","r","e","A","t","E">>
txtDATABASE == <<"D","A","T","A","B","A","S","E">>
txtDATAbase == <<"D","A","T","A","b","a","s","e">>
txtSelect   == <<"S","E","L","E","C","T">>
txtMyDB     == <<"M","y","D","B">>
Quoted(s)   == <<"\"">> \o s \o <<"\"">>

\* arbitrary text: every concatenation of at most MaxSegs of these pieces
Lexicon ==
    { txtCREATE, txtDATAbase, <<" ">>, <<"\"">>, <<"x">>, <<";">>, <<"*">>,
      <<"U+00E9">> }
FreeInputs ==
    { Flatten(f) : f \in UNION { [1..n -> Lexicon] : n \in 0..MaxSegs } }

\* statement-shaped text: lead kw1 sep kw2 sep operand trail
Leads     == { <<>>, <<" ", "\n">> }
Firsts    == { txtCREATE, txtCreAtE, txtDATABASE, txtSelect }
Seps      == { <<>>, <<" ">>, <<"\t", "U+00A0">> }
Seconds   == { txtDATABASE, txtDATAbase, txtCREATE, txtMyDB }
Names     == { txtMyDB, <<" ", "M", "y", " ", "1", " ">>, <<"U+00E9", "x">> }
Unquoted  == { txtMyDB, <<"1">>, <<";">>, <<>> }
Operands  ==
    { Quoted(n) : n \in Names } \cup Unquoted \cup
    { Quoted(<<>>), <<"\"">> \o txtMyDB,
      txtDATABASE \o <<" ">> \o Quoted(txtMyDB) }
Trails    ==
    { <<>>, <<";">>, <<" ", ";">>, <<" ", ";", "\t", " ">>, <<"x">>, <<"\"">>,
      <<" ">> \o txtCREATE \o <<" ">> \o txtDATABASE \o <<" ">> \o Quoted(<<"x">>) }
StatementInputs ==
    { l \o a \o s1 \o b \o s2 \o o \o t :
        l \in Leads, a \in Firsts, s1 \in Seps, b \in Seconds, s2 \in Seps,
        o \in Operands, t \in Trails }

\* names around the u8 limit
LongInputs ==
    { txtCREATE \o <<" ">> \o txtDATABASE \o <<" ">> \o Quoted(Rep("a", n)) :
        n \in (U8Mod - 2)..MaxLongName }

\* every upper/lower-case spelling of the two keywords
CharToUppercase(c) ==
    IF c \in LowerSet
    THEN UpperLetters[CHOOSE i \in DOMAIN LowerLetters : LowerLetters[i] = c]
    ELSE c
CaseVariants(word) ==
    { [ i \in DOMAIN word |-> IF i \in S THEN CharToUppercase(word[i]) ELSE word[i] ] :
        S \in SUBSET (DOMAIN word) }
CreateVariants   == CaseVariants(kwCreate)
DatabaseVariants == CaseVariants(kwDatabase)
KeywordInputs    == CreateVariants \cup DatabaseVariants

Inputs == FreeInputs \cup StatementInputs \cup LongInputs \cup KeywordInputs

-----------------------------------------------------------------------------
(* The caller constructs one unit over one input and calls it repeatedly.  *)

Units == {"Lexer", "Parser", "CodeGen"}

NotCalledToken     == [tag |-> "NotCalled", kw |-> "", text |-> <<>>]
NotCalledStatement == [tag |-> "NotCalled", name |-> <<>>]
NotCalledBytecode  == [tag |-> "NotCalled", bytes |-> <<>>]

\* no Client has been constructed
NoClient ==
    /\ client_input = <<>>
    /\ history = <<>>
    /\ history_pos = 0
    /\ pc = "none"

\* neither tag conversion has been called
TagsNotCalled ==
    /\ arg_lang_type = "NotCalled"
    /\ ret_byte = 0
    /\ arg_byte = 0
    /\ ret_lang_type = "NotCalled"

Init ==
    /\ input \in Inputs
    /\ unit \in Units
    /\ IF unit = "Lexer"
       THEN pos = 0 /\ current_token = NoneToken
       ELSE \E parser \in {ParserNew(input)} :
                pos = parser.pos /\ current_token = parser.current_token
    /\ bytecode = <<>>
    /\ token = NotCalledToken
    /\ statement = NotCalledStatement
    /\ result = NotCalledBytecode
    /\ calls = 0
    /\ somes = 0
    /\ TagsNotCalled
    /\ NoClient

\* lexer.next_token()
CallNextToken ==
    /\ unit = "Lexer"
    /\ calls < MaxLexCalls
    /\ \E r \in {LexerNextToken(input, pos)} :
           /\ pos' = r.pos
           /\ token' = r.tok
    /\ calls' = calls + 1
    /\ UNCHANGED <<input, unit, current_token, bytecode, statement, result, somes>>
    /\ UNCHANGED <<tagVars, clientVars>>

\* parser.parse()
CallParse ==
    /\ unit = "Parser"
    /\ calls < MaxCalls
    /\ \E r \in {Parse(input, pos, current_token)} :
           /\ pos' = r.pos
           /\ current_token' = r.current_token
           /\ statement' = r.ret
           /\ somes' = IF r.ret.tag # "None" THEN somes + 1 ELSE somes
    /\ calls' = calls + 1
    /\ UNCHANGED <<input, unit, bytecode, token, result>>
    /\ UNCHANGED <<tagVars, clientVars>>

\* codegen.generate_bytecode()
CallGenerateBytecode ==
    /\ unit = "CodeGen"
    /\ calls < MaxCalls
    /\ \E r \in {GenerateBytecode(input, pos, current_token, bytecode)} :
           /\ pos' = r.pos
           /\ current_token' = r.current_token
           /\ bytecode' = r.bytecode
           /\ result' = r.ret
           /\ somes' = IF r.ret.tag # "None" THEN somes + 1 ELSE somes
    /\ calls' = calls + 1
    /\ UNCHANGED <<input, unit, token, statement>>
    /\ UNCHANGED <<tagVars, clientVars>>

Next == CallNextToken \/ CallParse \/ CallGenerateBytecode

Spec == Init /\ [][Next]_vars

-----------------------------------------------------------------------------
(* The tag conversions of codegen are public functions: a caller hands     *)
(* language_type_to_bytecode any LanguageType and                          *)
(* bytecode_to_language_type any u8.                                       *)

Bytes == 0..(U8Mod - 1)

TagInit ==
    /\ unit = "Tags"
    /\ input = <<>>
    /\ pos = 0
    /\ current_token = NoneToken
    /\ bytecode = <<>>
    /\ token = NotCalledToken
    /\ statement = NotCalledStatement
    /\ result = NotCalledBytecode
    /\ calls = 0
    /\ somes = 0
    /\ TagsNotCalled
    /\ NoClient

\* language_type_to_bytecode(lang_type)
CallLanguageTypeToBytecode ==
    /\ unit = "Tags"
    /\ \E t \in LanguageTypes :
           /\ arg_lang_type' = t
           /\ ret_byte' = LanguageTypeToBytecode(t)
    /\ UNCHANGED <<unit, compilerVars, arg_byte, ret_lang_type, clientVars>>

\* bytecode_to_language_type(byte)
CallBytecodeToLanguageType ==
    /\ unit = "Tags"
    /\ \E b \in Bytes :
           /\ arg_byte' = b
           /\ ret_lang_type' = BytecodeToLanguageType(b)
    /\ UNCHANGED <<unit, compilerVars, arg_lang_type, ret_byte, clientVars>>

TagNext == CallLanguageTypeToBytecode \/ CallBytecodeToLanguageType

TagSpec == TagInit /\ [][TagNext]_vars

-----------------------------------------------------------------------------
(* Client.  A String is a sequence of characters as above; a key is the    *)
(* byte read from the keyboard.  pc is "new" after Client::new(), "loop"   *)
(* while read_input waits for a key, "returned" once read_input has        *)
(* returned and "panicked" if a handler panics.                            *)

\* user input history size limit
HISTORY_LIMIT == 64
\* number of spaces per tab
TAB_SIZE == 4
\* terminal::key
ESC        == 27
CSI        == 91
UP_ARROW   == 65
DOWN_ARROW == 66
BACKSPACE  == 127
ENTER      == 13
TAB        == 9

\* terminal::is_ctrl
IsCtrl(symbol) == symbol >= 1 /\ symbol <= 26

\* `byte as char` for the bytes typed in the model
ByteAsChar(b) ==
    CASE b = 32 -> " "
      [] b = 58 -> ":"
      [] b \in 65..90  -> UpperLetters[b - 64]
      [] b \in 97..122 -> LowerLetters[b - 96]

\* str::trim
Trim(s) ==
    LET Cut(kept) ==
            IF kept = {} THEN <<>>
            ELSE SubSeq(s, CHOOSE i \in kept : \A j \in kept : i <= j,
                           CHOOSE i \in kept : \A j \in kept : j <= i)
    IN  Cut({ i \in DOMAIN s : ~IsWhitespace(s[i]) })

\* str::starts_with
StartsWith(s, prefix) ==
    Len(prefix) <= Len(s) /\ SubSeq(s, 1, Len(prefix)) = prefix

\* the first element of s.split(" ")
FirstField(s) ==
    LET UpTo(stops) ==
            IF stops = {} THEN s
            ELSE SubSeq(s, 1, (CHOOSE i \in stops : \A j \in stops : i <= j) - 1)
    IN  UpTo({ i \in DOMAIN s : s[i] = " " })

\* meta::COMMANDS
COMMANDS ==
    << [name |-> <<"h","e","l","p">>,             handler |-> "help"],
       [name |-> <<"e","x","i","t">>,             handler |-> "exit"],
       [name |-> <<"v","e","r","s","i","o","n">>, handler |-> "version"],
       [name |-> <<"e","x","e","c">>,             handler |-> "exec"] >>

\* meta::is_command
IsCommand(inp) == StartsWith(inp, <<":">>)

\* (command.handler)(&input): help, version and exec return false, exit
\* returns true
CallHandler(handler) == handler = "exit"

\* meta::handle_command
HandleCommand(inp) ==
    LET Find(found) ==
            IF found = {} THEN FALSE
            ELSE CallHandler(COMMANDS[CHOOSE i \in found : \A j \in found : i <= j].handler)
        Lookup(command_name) ==
            Find({ i \in DOMAIN COMMANDS : COMMANDS[i].name = command_name })
    IN  Lookup(FirstField(Trim(Tail(inp))))

\* meta::find_closest_commands
FindClosestCommands(inp) ==
    LET NamesOf(matching) == [ i \in DOMAIN matching |-> matching[i].name ]
        Filter(prefix) ==
            NamesOf(SelectSeq(COMMANDS, LAMBDA command : StartsWith(command.name, prefix)))
    IN  Filter(Tail(Trim(inp)))

\* The handlers take the Client as a record of its fields and pc, and
\* return it as they leave it.

\* Client::handle_up_arrow
HandleUpArrow(c) ==
    LET Moved(p) ==
            IF p < Len(c.history)
            THEN [c EXCEPT !.history_pos = p, !.input = c.history[p + 1]]
            ELSE [c EXCEPT !.history_pos = p, !.pc = "panicked"]
    IN  IF Len(c.history) > 0
        THEN Moved(IF c.history_pos = 0 THEN 0 ELSE c.history_pos - 1)
        ELSE c

\* Client::handle_down_arrow
HandleDownArrow(c) ==
    LET Update(moved) ==
            IF moved.history_pos < Len(c.history)
            THEN [moved EXCEPT !.input = c.history[moved.history_pos + 1]]
            ELSE moved
    IN  IF Len(c.history) > 0
        THEN Update(IF c.history_pos >= Len(c.history) - 1
                    THEN [c EXCEPT !.input = <<>>, !.history_pos = Len(c.history)]
                    ELSE [c EXCEPT !.history_pos = c.history_pos + 1])
        ELSE c

\* Client::handle_arrow_keys, with the two bytes it reads
HandleArrowKeys(c, second, third) ==
    IF second = CSI
    THEN IF third = UP_ARROW THEN HandleUpArrow(c)
         ELSE IF third = DOWN_ARROW THEN HandleDownArrow(c)
         ELSE c
    ELSE c

\* Client::handle_backspace
HandleBackspace(c) ==
    IF c.input # <<>>
    THEN [c EXCEPT !.input = SubSeq(c.input, 1, Len(c.input) - 1)]
    ELSE c

\* Client::handle_tab
HandleTab(c) ==
    LET Complete(inp, suggestions) ==
            IF Len(suggestions) = 1 THEN <<":">> \o suggestions[1] ELSE inp
        Filled(inp) ==
            IF IsCommand(inp) THEN Complete(inp, FindClosestCommands(inp))
            ELSE inp \o [ i \in 1..TAB_SIZE |-> " " ]
    IN  [c EXCEPT !.input = Filled(Trim(c.input))]

\* a handle_enter that leaves history_pos where it was
HandleEnterKeepsCursor(c) ==
    LET Pushed(h, handled) == [c EXCEPT !.history = h, !.input = <<>>]
        Entered(inp) ==
            IF inp = <<>> THEN [c EXCEPT !.input = <<>>]
            ELSE Pushed(Append(c.history, inp),
                        IF IsCommand(inp) THEN HandleCommand(inp) ELSE FALSE)
    IN  Entered(Trim(c.input))

\* Client::handle_enter: the bool that meta::handle_command returns is not
\* bound to anything
HandleEnter(c) ==
    LET Pushed(h, handled) ==
            [c EXCEPT !.history = h, !.history_pos = Len(h), !.input = <<>>]
        Entered(inp) ==
            IF inp = <<>> THEN [c EXCEPT !.input = <<>>]
            ELSE Pushed(Append(c.history, inp),
                        IF IsCommand(inp) THEN HandleCommand(inp) ELSE FALSE)
    IN  Entered(Trim(c.input))

\* Client::handle_ctrl
HandleCtrl(symbol) == (symbol + 65 - 1) % U8Mod = 67

\* Client::save_history: nothing is trimmed when the file cannot be opened
SaveHistory(c, opened) ==
    IF opened /\ Len(c.history) > HISTORY_LIMIT
    THEN [c EXCEPT !.history =
              SubSeq(c.history, Len(c.history) - HISTORY_LIMIT + 1, Len(c.history))]
    ELSE c

\* What the user does: the lines typed are prefixes of Lines (edited with
\* backspace, tab, arrows), the history file holds one of HistoryFiles.
lineExit == <<":", "e", "x", "i", "t">>
Lines ==
    { lineExit \o <<" ", "x">>, <<":", "e", "x", "e", "c">>, <<"e", "x", "i", "t">> }
Typeable     == UNION { { SubSeq(l, 1, k) : k \in 0..Len(l) } : l \in Lines }
SymbolBytes  == {32, 58, 99, 101, 105, 116, 120}
CtrlBytes    == {3, 4}
EscapeBytes  == {CSI, UP_ARROW, DOWN_ARROW}
HistoryFiles == { <<>>, <<lineExit>>, <<lineExit, <<"e", "x", "i", "t">>>> }

Client ==
    [input |-> client_input, history |-> history,
     history_pos |-> history_pos, pc |-> pc]

Becomes(c) ==
    /\ client_input' = c.input
    /\ history' = c.history
    /\ history_pos' = c.history_pos
    /\ pc' = c.pc

\* Client::new()
ClientInit ==
    /\ unit = "Client"
    /\ input = <<>>
    /\ pos = 0
    /\ current_token = NoneToken
    /\ bytecode = <<>>
    /\ token = NotCalledToken
    /\ statement = NotCalledStatement
    /\ result = NotCalledBytecode
    /\ calls = 0
    /\ somes = 0
    /\ TagsNotCalled
    /\ client_input = <<>>
    /\ history = <<>>
    /\ history_pos = 0
    /\ pc = "new"

\* read_input up to the loop: load_history succeeds with the lines of the
\* file, or fails and read_input returns
LoadHistory ==
    /\ pc = "new"
    /\ \E ok \in BOOLEAN : \E file \in HistoryFiles :
          IF ok
          THEN Becomes([Client EXCEPT
                          !.history = history \o file,
                          !.history_pos =
                              IF file = <<>> THEN history_pos
                              ELSE Len(history \o file),
                          !.pc = "loop"])
          ELSE Becomes([Client EXCEPT !.pc = "returned"])
    /\ UNCHANGED <<unit, compilerVars, tagVars>>

\* one turn of the loop reading ESC and the bytes after it
PressEscape ==
    /\ pc = "loop"
    /\ \E second \in EscapeBytes : \E third \in EscapeBytes :
          Becomes(HandleArrowKeys(Client, second, third))
    /\ UNCHANGED <<unit, compilerVars, tagVars>>

\* one turn of the loop reading BACKSPACE
PressBackspace ==
    /\ pc = "loop"
    /\ Becomes(HandleBackspace(Client))
    /\ UNCHANGED <<unit, compilerVars, tagVars>>

\* one turn of the loop reading TAB
PressTab ==
    /\ pc = "loop"
    /\ Becomes(HandleTab(Client))
    /\ UNCHANGED <<unit, compilerVars, tagVars>>

\* one turn of the loop reading ENTER
PressEnter ==
    /\ pc = "loop"
    /\ Len(history) < MaxHistory
    /\ Becomes(HandleEnter(Client))
    /\ UNCHANGED <<unit, compilerVars, tagVars>>

\* one turn of the loop reading a CTRL byte; on break read_input saves the
\* history and returns
PressCtrl ==
    /\ pc = "loop"
    /\ \E b \in CtrlBytes : \E opened \in BOOLEAN :
          /\ b \notin {ESC, BACKSPACE, TAB, ENTER} /\ IsCtrl(b)
          /\ IF HandleCtrl(b)
             THEN Becomes(SaveHistory([Client EXCEPT !.pc = "returned"], opened))
             ELSE Becomes(Client)
    /\ UNCHANGED <<unit, compilerVars, tagVars>>

\* one turn of the loop reading any other byte
PressSymbol ==
    /\ pc = "loop"
    /\ \E b \in SymbolBytes :
          /\ b \notin {ESC, BACKSPACE, TAB, ENTER} /\ ~IsCtrl(b)
          /\ Append(client_input, ByteAsChar(b)) \in Typeable
          /\ Becomes([Client EXCEPT !.input = Append(client_input, ByteAsChar(b))])
    /\ UNCHANGED <<unit, compilerVars, tagVars>>

ClientNext ==
    \/ LoadHistory
    \/ PressEscape
    \/ PressBackspace
    \/ PressTab
    \/ PressEnter
    \/ PressCtrl
    \/ PressSymbol

ClientSpec == ClientInit /\ [][ClientNext]_vars

-----------------------------------------------------------------------------
(* Properties.                                                             *)

\* the step is one call of a unit's entry point
ParseStep    == unit = "Parser"  /\ calls' = calls + 1
GenerateStep == unit = "CodeGen" /\ calls' = calls + 1
LexStep      == unit = "Lexer"   /\ calls' = calls + 1

\* Inputs of the form CREATE DATABASE "<name>", built from their parts:
\* optional leading whitespace, both keywords in some letter case, at least
\* one whitespace character between tokens, a name without '"' of 1..255
\* bytes, and any trailing text.
Gaps              == Seps \ {<<>>}
CreateSpellings   == { txtCREATE, txtCreAtE }
DatabaseSpellings == { txtDATABASE, txtDATAbase }
ByteLimit         == U8Mod - 1
QuotedForms ==
    { [input |-> l \o a \o s1 \o b \o s2 \o Quoted(n) \o t, name |-> n] :
        l \in Leads, a \in CreateSpellings, s1 \in Gaps,
        b \in DatabaseSpellings, s2 \in Gaps, n \in Names, t \in Trails }
    \cup
    { [input |-> txtCREATE \o <<" ">> \o txtDATABASE \o <<" ">>
                   \o Quoted(Rep("a", n)),
       name  |-> Rep("a", n)] : n \in (U8Mod - 2)..ByteLimit }

\* the spec's own example: CREATE DATABASE "MyDB";
ExampleInput ==
    txtCREATE \o <<" ">> \o txtDATABASE \o <<" ">> \o Quoted(txtMyDB) \o <<";">>
ExampleBytecode == <<1, 1, 4, 77, 121, 68, 66>>

\* C1: the first generate_bytecode() on a fresh pipeline over an input of the
\* form CREATE DATABASE "<name>" (name of 1..255 bytes) returns
\* Some([0x01, 0x01, len(name)] ++ bytes(name)) and nothing else; for
\* CREATE DATABASE "MyDB"; that is [1, 1, 4, 'M', 'y', 'D', 'B'].
C1_EndToEndEncoding ==
    (unit = "CodeGen" /\ calls = 1) =>
        /\ \A f \in QuotedForms :
              f.input = input =>
                  result = SomeBytecode(<<1, 1, StrLen(f.name)>> \o StrBytes(f.name))
        /\ input = ExampleInput => result = SomeBytecode(ExampleBytecode)

\* C1 witness: a name of exactly 255 bytes has been compiled and its length
\* byte is 255
C1_Witness ==
    /\ unit = "CodeGen" /\ calls = 1
    /\ result.tag = "Some"
    /\ \E f \in QuotedForms :
          f.input = input /\ (StrLen(f.name) = ByteLimit)
    /\ result.bytes[3] = ByteLimit

\* C2 (as claimed): in every returned bytecode the byte at offset 2 equals
\* the number of bytes that follow it, for names of any length.
C2_LengthPrefixAnyLength ==
    (unit = "CodeGen" /\ result.tag = "Some") =>
        result.bytes[3] = Len(result.bytes) - 3

\* C3 (as claimed): a parse() -- or generate_bytecode() -- call that returns
\* None leaves current_token and the lexer cursor as they were before the call.
C3_NoConsumedStateOnFailure ==
    [][ ( \/ ParseStep /\ statement'.tag = "None"
          \/ GenerateStep /\ result'.tag = "None" )
        => (current_token' = current_token /\ pos' = pos) ]_vars

\* the next character after leading whitespace at cursor p is a '"' and no
\* '"' follows it
MeetsUnterminatedQuote(inp, p) ==
    \E q \in (p + 1)..Len(inp) :
        /\ inp[q] = "\""
        /\ \A r \in (p + 1)..(q - 1) : inp[r] \in WhitespaceChars
        /\ \A r \in (q + 1)..Len(inp) : inp[r] # "\""

\* C4 (as claimed): next_token() on a '"' with no closing '"' in the
\* remaining input returns None.
C4_UnterminatedStringIsNone ==
    [][ (LexStep /\ MeetsUnterminatedQuote(input, pos))
        => token'.tag = "None" ]_vars

\* Inputs CREATE DATABASE <operand> whose operand is not started by a '"'
UnquotedForms(operands) ==
    { l \o a \o s1 \o b \o s2 \o o \o t :
        l \in Leads, a \in CreateSpellings, s1 \in Gaps,
        b \in DatabaseSpellings, s2 \in Gaps, o \in operands,
        t \in {<<>>, <<";">>, <<" ", ";">>} }
AlphabeticOperandInputs == UnquotedForms({txtMyDB})
OtherOperandInputs      == UnquotedForms(Unquoted \ {txtMyDB})

\* C5 (as claimed): an input whose database name is not delimited by double
\* quotes, such as CREATE DATABASE MyDB, is rejected by parse() and by
\* generate_bytecode().
C5_UnquotedOperandRejected ==
    (unit \in {"Parser", "CodeGen"} /\ calls >= 1
        /\ input \in AlphabeticOperandInputs \cup OtherOperandInputs)
    => somes = 0

\* C5 (amended): an input CREATE DATABASE <operand> whose operand starts with
\* neither a '"' nor an alphabetic character (a digit, ';', or nothing) is
\* rejected by every call, while the unquoted alphabetic run MyDB is accepted
\* by the first call as the database name.
C5_NonStringOperandRejected ==
    (unit \in {"Parser", "CodeGen"} /\ calls >= 1) =>
        /\ input \in OtherOperandInputs =>
              /\ somes = 0
              /\ unit = "Parser"  => statement.tag = "None"
              /\ unit = "CodeGen" => result.tag = "None" /\ bytecode = <<>>
        /\ (input \in AlphabeticOperandInputs /\ calls = 1) =>
              /\ unit = "Parser"  => statement = CreateDatabase(txtMyDB)
              /\ unit = "CodeGen" =>
                    result = SomeBytecode(<<1, 1, 4>> \o StrBytes(txtMyDB))

\* C5 witness: CREATE DATABASE 1 has been rejected by generate_bytecode()
C5_Witness ==
    /\ unit = "CodeGen" /\ calls = 1
    /\ input = txtCREATE \o <<" ">> \o txtDATABASE \o <<" ">> \o <<"1">>
    /\ result.tag = "None"

\* a script of two statements
TwoStatements ==
    txtCREATE \o <<" ">> \o txtDATABASE \o <<" ">> \o Quoted(txtMyDB)
      \o <<" ">> \o txtCREATE \o <<" ">> \o txtDATABASE \o <<" ">>
      \o Quoted(<<"x">>)

\* bc is the encoding of exactly one CREATE DATABASE statement for name
IsOneEncoding(bc, name) ==
    /\ Len(bc) >= 3
    /\ bc[1] = 1 /\ bc[2] = 1
    /\ bc[3] \in 0..(U8Mod - 1)
    /\ SubSeq(bc, 4, Len(bc)) = StrBytes(name)

\* C6: over any number of generate_bytecode() calls on one CodeGen at most one
\* returns Some, and the bytecode buffer is empty or holds exactly one
\* statement encoding (header, length byte, the bytes of the one parsed name).
C6_OneStatementPerCodeGen ==
    unit = "CodeGen" =>
        /\ somes <= 1
        /\ \/ bytecode = <<>> /\ somes = 0
           \/ /\ somes = 1
              /\ current_token.tag = "String"
              /\ IsOneEncoding(bytecode, current_token.text)

\* C6 witness: generate_bytecode() was called again after it compiled the
\* first statement of a two-statement script
C6_Witness ==
    /\ unit = "CodeGen" /\ input = TwoStatements
    /\ calls >= 2 /\ somes = 1
    /\ bytecode = ExampleBytecode

\* C7: a generate_bytecode() call that returns None leaves the bytecode
\* buffer byte-for-byte as it was.
C7_NoPartialEmission ==
    [][ (GenerateStep /\ result'.tag = "None") => bytecode' = bytecode ]_vars

\* C7 witness: generate_bytecode() has returned None on a CodeGen whose
\* buffer was not empty
C7_Witness ==
    /\ unit = "CodeGen" /\ calls >= 2
    /\ result.tag = "None" /\ bytecode # <<>>

\* the statement the grammar yields for the first three results of a Lexer
\* over inp
GrammarOfFirstThree(inp) ==
    LET Decide(t1, t2, t3) ==
            IF /\ t1.tok = KeywordTok("Create")
               /\ t2.tok = KeywordTok("Database")
               /\ t3.tok.tag = "String"
            THEN CreateDatabase(t3.tok.text)
            ELSE NoneStatement
        Third(t1, t2) == Decide(t1, t2, LexerNextToken(inp, t2.pos))
        Second(t1)    == Third(t1, LexerNextToken(inp, t1.pos))
    IN  Second(LexerNextToken(inp, 0))

\* C8: the first parse() on a fresh Parser returns Some(CreateDatabase{name: s})
\* exactly when the first three lexer results are Keyword(Create),
\* Keyword(Database), String(s), and None in every other case.
C8_GrammarAcceptance ==
    (unit = "Parser" /\ calls = 1) => statement = GrammarOfFirstThree(input)

\* C8 witness: the first parse() has returned a statement
C8_Witness ==
    /\ unit = "Parser" /\ calls = 1
    /\ statement = CreateDatabase(<<" ", "M", "y", " ", "1", " ">>)

\* Parser::new followed by the first parse()
FirstParse(inp) ==
    LET Run(parser) == Parse(inp, parser.pos, parser.current_token)
    IN  Run(ParserNew(inp))

\* the lexer cursor after exactly three next_token() calls
CursorAfterThree(inp) ==
    LET Third(t2)  == LexerNextToken(inp, t2.pos).pos
        Second(t1) == Third(LexerNextToken(inp, t1.pos))
    IN  Second(LexerNextToken(inp, 0))

\* C9 (as claimed): for every input the first parse() accepts, the statement
\* is the same when a ';' is appended to the input, and the parser has asked
\* the lexer for no token beyond the operand.
C9_TrailingSemicolonIrrelevant ==
    (unit = "Parser" /\ calls = 1 /\ statement.tag = "CreateDatabase") =>
        /\ FirstParse(input \o <<";">>).ret = statement
        /\ pos = CursorAfterThree(input)

\* C10: when the first lexer result is not Keyword(Create), every
\* generate_bytecode() call returns None (and nothing is emitted).
C10_UnsupportedRejected ==
    (unit = "CodeGen" /\ calls >= 1
        /\ LexerNextToken(input, 0).tok # KeywordTok("Create"))
    => (result.tag = "None" /\ somes = 0 /\ bytecode = <<>>)

\* C10 witness: SELECT ... has been rejected, more than once
C10_Witness ==
    /\ unit = "CodeGen" /\ calls >= 2
    /\ LexerNextToken(input, 0).tok = StringTok(txtSelect)
    /\ result.tag = "None"

-----------------------------------------------------------------------------
\* C11: code generation cannot fail on its own: on a fresh pipeline the first
\* generate_bytecode() returns Some(bytecode) exactly when the first parse()
\* of a fresh Parser over the same input returns a Statement; every None of
\* generate_bytecode() is a None of parse().
C11_CodegenFailsOnlyInParse ==
    (unit = "CodeGen" /\ calls = 1) =>
        LET Agree(parsed) == (parsed.ret.tag # "None") <=> (result.tag = "Some")
        IN  Agree(FirstParse(input))

\* a statement with an unquoted name went through parse and code generation
C11_Witness ==
    /\ unit = "CodeGen" /\ calls = 1
    /\ input = txtCREATE \o <<" ">> \o txtDATABASE \o <<" ">> \o txtMyDB
    /\ result = SomeBytecode(<<1, 1, 4, 77, 121, 68, 66>>)

-----------------------------------------------------------------------------
\* Inputs made of keywords, terminated non-empty string literals and ';'
\* with at least one whitespace character between neighbours, written next
\* to the tokens they stand for.
CreateItems    == { [text |-> t, tok |-> KeywordTok("Create")] : t \in CreateSpellings }
DatabaseItems  == { [text |-> t, tok |-> KeywordTok("Database")] : t \in DatabaseSpellings }
SemicolonItem  == [text |-> <<";">>, tok |-> SemicolonTok]
LiteralItems   == { [text |-> Quoted(n), tok |-> StringTok(n)] : n \in Names }
SeparatedTrails ==
    { [text |-> <<>>, toks |-> <<>>],
      [text |-> <<" ", ";">>, toks |-> <<SemicolonTok>>],
      [text |-> <<" ", ";", "\t", " ">>, toks |-> <<SemicolonTok>>],
      [text |-> <<" ">> \o txtCREATE \o <<" ">> \o txtDATABASE \o <<" ">>
                  \o Quoted(<<"x">>),
       toks |-> <<KeywordTok("Create"), KeywordTok("Database"),
                  StringTok(<<"x">>)>>] }
ShortItems ==
    { [text |-> txtCREATE,   tok |-> KeywordTok("Create")],
      [text |-> txtDATAbase, tok |-> KeywordTok("Database")],
      [text |-> Quoted(<<"x">>), tok |-> StringTok(<<"x">>)],
      SemicolonItem }
Blanks == { <<>>, <<" ">>, <<" ", " ">> }
SeparatedForms ==
    { [input |-> l \o a.text \o s1 \o b.text \o s2 \o n.text \o t.text,
       toks  |-> <<a.tok, b.tok, n.tok>> \o t.toks] :
        l \in Leads, a \in CreateItems \cup DatabaseItems, s1 \in Gaps,
        b \in CreateItems \cup DatabaseItems, s2 \in Gaps,
        n \in LiteralItems, t \in SeparatedTrails }
    \cup
    { [input |-> w, toks |-> <<>>] : w \in Blanks }
    \cup
    { [input |-> w1 \o i.text \o w2, toks |-> <<i.tok>>] :
        w1 \in Blanks, i \in ShortItems, w2 \in Blanks }
    \cup
    { [input |-> i.text \o <<" ">> \o j.text, toks |-> <<i.tok, j.tok>>] :
        i \in ShortItems, j \in ShortItems }

SeparatedInputs == { f.input : f \in SeparatedForms }

\* C12: on an input made of keywords, quoted string literals and ';' that
\* are separated by at least one whitespace character, with any leading and
\* trailing whitespace, the k-th next_token() returns the k-th token of the
\* input, and every call after the last token returns End.
C12_WhitespaceSeparatedTokens ==
    (unit = "Lexer" /\ calls >= 1 /\ input \in SeparatedInputs) =>
        \A f \in SeparatedForms :
            (f.input = input) =>
                token = IF calls <= Len(f.toks) THEN f.toks[calls] ELSE EndTok

\* the fifth call returned End after CREATE, DATABASE, a literal holding
\* spaces and a ';' followed by trailing whitespace
C12_Witness ==
    /\ unit = "Lexer" /\ calls = 5 /\ token = EndTok
    /\ input = <<" ", "\n">> \o txtCreAtE \o <<"\t", "U+00A0">> \o txtDATAbase
                 \o <<" ">> \o Quoted(<<" ", "M", "y", " ", "1", " ">>)
                 \o <<" ", ";", "\t", " ">>

-----------------------------------------------------------------------------
\* nothing but whitespace is left behind cursor p (nothing at all included)
RestIsBlank(inp, p) == \A r \in (p + 1)..Len(inp) : inp[r] \in WhitespaceChars

\* C13: a next_token() called when the remaining input is empty or only
\* whitespace returns End, and so does every next_token() called after one
\* that returned End: never None and never another token.
C13_EndIsRepeatable ==
    [][(LexStep /\ (RestIsBlank(input, pos) \/ token = EndTok))
          => token' = EndTok]_vars

\* a whitespace-only input answered End three times in a row
C13_Witness ==
    /\ unit = "Lexer" /\ calls = 3 /\ token = EndTok
    /\ input = <<" ", " ">>
    /\ pos = Len(input)

-----------------------------------------------------------------------------
\* inp[a..b] is the maximal alphabetic run that a next_token() called at
\* cursor p meets first: only whitespace lies between the cursor and a, and
\* the run can be extended on neither side.
IsNextRun(inp, p, a, b) ==
    /\ a <= b /\ b <= Len(inp)
    /\ inp[a] \in AlphabeticChars
    /\ (b = Len(inp) \/ inp[b + 1] \notin AlphabeticChars)
    /\ (a = 1 \/ inp[a - 1] \notin AlphabeticChars)
    /\ \A r \in (p + 1)..(a - 1) : inp[r] \in WhitespaceChars
    /\ \A r \in a..b : inp[r] \in AlphabeticChars

\* C14: a maximal alphabetic run that spells `create` (resp. `database`) in
\* any mix of upper and lower case is returned by next_token() as
\* Keyword(Create) (resp. Keyword(Database)), never as String.
C14_KeywordsAnyCase ==
    [][LexStep =>
          \A a \in (pos + 1)..Len(input) :
             /\ (IsNextRun(input, pos, a, a + Len(kwCreate) - 1)
                    /\ SubSeq(input, a, a + Len(kwCreate) - 1) \in CreateVariants)
                 => token' = KeywordTok("Create")
             /\ (IsNextRun(input, pos, a, a + Len(kwDatabase) - 1)
                    /\ SubSeq(input, a, a + Len(kwDatabase) - 1) \in DatabaseVariants)
                 => token' = KeywordTok("Database")]_vars

\* the spelling dAtaBaSE came back as Keyword(Database)
C14_Witness ==
    /\ unit = "Lexer" /\ calls = 1
    /\ input = <<"d", "A", "t", "a", "B", "a", "S", "E">>
    /\ token = KeywordTok("Database")

-----------------------------------------------------------------------------
\* inp[a] and inp[b] are the quotes of a terminated literal with non-empty
\* text that a next_token() called at cursor p meets first.
IsNextLiteral(inp, p, a, b) ==
    /\ inp[a] = "\""
    /\ a + 1 < b /\ b <= Len(inp)
    /\ inp[b] = "\""
    /\ \A r \in (p + 1)..(a - 1) : inp[r] \in WhitespaceChars
    /\ \A r \in (a + 1)..(b - 1) : inp[r] # "\""

\* C15: when next_token() meets a terminated literal "<s>" with non-empty s
\* holding no double quote, it returns String(s): every character between
\* the quotes, whitespace and keyword-shaped text included, unchanged and in
\* order.
C15_LiteralVerbatim ==
    [][LexStep =>
          \A a \in (pos + 1)..Len(input) : \A b \in (a + 2)..Len(input) :
              IsNextLiteral(input, pos, a, b)
                  => token' = StringTok(SubSeq(input, a + 1, b - 1))]_vars

\* a literal with leading, interior and trailing spaces and a digit came
\* back unchanged
C15_Witness ==
    /\ unit = "Lexer" /\ calls = 3
    /\ token = StringTok(<<" ", "M", "y", " ", "1", " ">>)
    /\ input = txtCREATE \o <<" ">> \o txtDATABASE \o <<" ">>
                 \o Quoted(<<" ", "M", "y", " ", "1", " ">>)

-----------------------------------------------------------------------------
\* C16: a maximal alphabetic run that is no keyword in any letter case is
\* returned by next_token() as String(run), the run as written with its
\* letter case, never as None.
C16_IdentifierIsString ==
    [][LexStep =>
          \A a \in (pos + 1)..Len(input) : \A b \in a..Len(input) :
              (IsNextRun(input, pos, a, b)
                 /\ SubSeq(input, a, b) \notin KeywordInputs)
                  => token' = StringTok(SubSeq(input, a, b))]_vars

\* the identifier MyDB after CREATE DATABASE came back with its letter case
C16_Witness ==
    /\ unit = "Lexer" /\ calls = 3
    /\ input = txtCREATE \o <<" ">> \o txtDATABASE \o <<" ">> \o txtMyDB
    /\ token = StringTok(txtMyDB)

-----------------------------------------------------------------------------
\* the characters that start no token: not alphabetic, not whitespace, not
\* '"' and not ';'
Unclassifiable == Chars \ (AlphabeticChars \cup WhitespaceChars \cup {"\"", ";"})

\* C17: when the first character after the whitespace at the cursor is
\* neither alphabetic nor '"' nor ';' (for example '*' or a digit),
\* next_token() returns None for that call.
C17_UnclassifiableIsNone ==
    [][LexStep =>
          \A a \in (pos + 1)..Len(input) :
              (/\ input[a] \in Unclassifiable
               /\ \A r \in (pos + 1)..(a - 1) : input[r] \in WhitespaceChars)
                  => token' = NoneToken]_vars

\* a digit in operand position, behind a tab and a no-break space, was
\* answered None
C17_Witness ==
    /\ unit = "Lexer" /\ calls = 3 /\ token = NoneToken
    /\ input = txtCREATE \o <<" ">> \o txtDATABASE \o <<"\t", "U+00A0">> \o <<"1">>

-----------------------------------------------------------------------------
\* C18: for each of the six LanguageType variants t,
\* bytecode_to_language_type(language_type_to_bytecode(t)) is Some(t); the
\* six tag bytes are pairwise distinct and are exactly 0x01..0x06.
C18_LanguageTypeRoundTrip ==
    (unit = "Tags") =>
        /\ (arg_lang_type # "NotCalled") => ret_byte \in 1..6
        /\ (arg_lang_type # "NotCalled" /\ ret_lang_type # "NotCalled"
               /\ arg_byte = ret_byte)
               => ret_lang_type = arg_lang_type
        /\ (ret_lang_type # "NotCalled" /\ arg_byte \in 1..6)
               => ret_lang_type \in LanguageTypes
        /\ \A t1 \in LanguageTypes : \A t2 \in LanguageTypes :
               (t1 # t2) => LanguageTypeToBytecode(t1) # LanguageTypeToBytecode(t2)

\* Vendor was converted to 0x06 and 0x06 back to Vendor
C18_Witness ==
    /\ unit = "Tags"
    /\ arg_lang_type = "Vendor" /\ ret_byte = 6
    /\ arg_byte = 6 /\ ret_lang_type = "Vendor"

-----------------------------------------------------------------------------
\* C20: after the user has typed `:exit` and presses Enter, the read_input
\* loop stops: read_input returns and no further key is processed.
C20_ExitStopsTheLoop ==
    [][(PressEnter /\ client_input = lineExit) => pc' = "returned"]_vars

-----------------------------------------------------------------------------
\* C21: a next_token() call that returns a token consumes only the leading
\* whitespace and the characters of that token: after a keyword/identifier
\* run the cursor stands right behind the last letter of the run, after a
\* terminated literal right behind its closing quote and after ';' right
\* behind the ';', so that the following character is examined by the next
\* call.
C21_TokenBoundaries ==
    [][LexStep =>
          \A a \in (pos + 1)..Len(input) :
             /\ (/\ input[a] = ";"
                 /\ \A r \in (pos + 1)..(a - 1) : input[r] \in WhitespaceChars)
                   => pos' = a
             /\ \A b \in a..Len(input) :
                   (IsNextRun(input, pos, a, b) \/ IsNextLiteral(input, pos, a, b))
                       => pos' = b]_vars

-----------------------------------------------------------------------------
\* C22: every next_token() call made while input remains consumes at least
\* one character, whatever it returns, and once len(input) + 1 calls have
\* been made the call returns End.
C22_LexerProgress ==
    [][LexStep =>
          /\ (pos < Len(input)) => (pos' > pos)
          /\ (calls' >= Len(input) + 1) => (token' = EndTok)]_vars

\* three unclassifiable characters took one None-returning call each, and
\* the fourth call returned End
C22_Witness ==
    /\ unit = "Lexer"
    /\ input = <<"*", "*", "*">>
    /\ calls = Len(input) + 1
    /\ token = EndTok
    /\ pos = Len(input)

-----------------------------------------------------------------------------
\* Inputs in which the k-th next_token() meets the empty literal "".
EmptyLiteral == Quoted(<<>>)
EmptyLiteralForms ==
    { [input |-> l \o EmptyLiteral \o t, k |-> 1] :
        l \in Leads \cup Blanks, t \in {<<>>, <<"x">>, <<";">>, <<" ">>} }
    \cup
    { [input |-> l \o a \o s1 \o b \o s2 \o EmptyLiteral \o t, k |-> 3] :
        l \in Leads, a \in CreateSpellings, s1 \in Gaps,
        b \in DatabaseSpellings, s2 \in Gaps, t \in Trails }
EmptyNameInputs ==
    { f.input : f \in { g \in EmptyLiteralForms : g.k = 3 } }

\* C23: every String token the lexer returns (to its caller or into the
\* parser's current_token) has non-empty text; a next_token() that meets the
\* empty literal "" returns None; every Statement parse() returns has a
\* non-empty name; and on CREATE DATABASE "" every parse() and
\* generate_bytecode() call returns None.
C23_NamesNeverEmpty ==
    /\ (token.tag = "String") => (token.text # <<>>)
    /\ (current_token.tag = "String") => (current_token.text # <<>>)
    /\ (statement.tag = "CreateDatabase") => (statement.name # <<>>)
    /\ (unit = "Lexer") =>
           \A f \in EmptyLiteralForms :
               (f.input = input /\ f.k = calls) => token = NoneToken
    /\ (input \in EmptyNameInputs) =>
           /\ statement.tag \in {"NotCalled", "None"}
           /\ result.tag \in {"NotCalled", "None"}

\* CREATE DATABASE "" was parsed and rejected
C23_Witness ==
    /\ unit = "Parser" /\ calls = 1
    /\ input = txtCREATE \o <<" ">> \o txtDATABASE \o <<" ">> \o EmptyLiteral
    /\ statement = NoneStatement
    /\ current_token = NoneToken

-----------------------------------------------------------------------------
\* C24: whatever history was loaded and whatever keys follow (arrows, Enter,
\* Tab, Backspace, characters), while the loop reads keys
\* 0 <= history_pos <= history.len(); no handler reads history at an index
\* outside it (no step ends in a panic); and Enter on a non-blank line
\* leaves history_pos = history.len().
C24_HistoryCursorInBounds ==
    [][ClientNext =>
          /\ (pc' = "loop") => (history_pos' \in 0..Len(history'))
          /\ pc' # "panicked"
          /\ (PressEnter /\ Trim(client_input) # <<>>)
                 => (history_pos' = Len(history') /\ Len(history') = Len(history) + 1)]_vars

\* :exec was entered behind a loaded :exit and the cursor was then moved up
\* to the oldest entry
C24_Witness ==
    /\ unit = "Client" /\ pc = "loop"
    /\ history = <<lineExit, <<":", "e", "x", "e", "c">>>>
    /\ history_pos = 0
    /\ client_input = lineExit

====
